---- MODULE Spec2Model ----
(***************************************************************************)
(* Session resolution and retry protocol of the Porthole Python client     *)
(* (emacs_porthole/core.py, json_rpc.py, exceptions.py).                   *)
(*                                                                         *)
(* A call validates its arguments, builds a request and sends it with the  *)
(* cached session of the server or, when nothing is cached, with the       *)
(* session read from the session file.  When the cached attempt seems to   *)
(* have failed the session file is re-read and, if it differs from the     *)
(* cache, the cache is overwritten and the request is sent once more.      *)
(*                                                                         *)
(* Python values are modelled as tagged records (type, payload), so that   *)
(* dict equality, membership tests and truthiness are computed the way     *)
(* Python computes them.  Exceptions are modelled by their class names and *)
(* their base classes.                                                     *)
(***************************************************************************)
EXTENDS Integers, Sequences, FiniteSets, TLC

VARIABLES
    server_info_cache,  \* core._server_info_cache: server name -> session
    session_file,       \* the session file of each server name (environment)
    pc,                 \* per caller: position in call / call_raw
    server,             \* per caller: the server_name argument
    timeout_arg,        \* per caller: the timeout the caller passed ({} = none)
    method_arg,         \* per caller: the method argument
    params_arg,         \* per caller: the params argument
    cached_session,     \* per caller: local of _send_request_from_cache
    first_post,         \* per caller: (response, requests_error) of the cached attempt
    session_on_disk,    \* per caller: session read from the file by this call
    outcome,            \* per caller: what the call returned or raised
    attempts,           \* per caller: the requests.post calls of this call, in order
    reads,              \* per caller: the file states this call's reads found, in order
    cache_before,       \* per caller: the cache when the call started
    request             \* per caller: the request call_raw built (None before)

vars == << server_info_cache, session_file, pc, server, timeout_arg,
           method_arg, params_arg,
           cached_session, first_post, session_on_disk, outcome,
           attempts, reads, cache_before, request >>

(***************************************************************************)
(* Python / JSON values                                                    *)
(***************************************************************************)
None == [type |-> "null"]
JStr(s) == [type |-> "string", s |-> s]
JNum(n) == [type |-> "number", n |-> n]
\* A JSON number with a fraction decodes to a float (n: its value in tenths),
\* true / false to a bool.
JFloat(n) == [type |-> "float", n |-> n]
JBool(b) == [type |-> "bool", b |-> b]
JObj(m) == [type |-> "object", members |-> m]
JArr(xs) == [type |-> "array", items |-> xs]
\* Text that json.load / json.loads cannot decode.
NotJson == [type |-> "invalid"]

IsDict(v) == v.type = "object"
IsStr(v) == v.type = "string"
\* isinstance(v, int): bool is a subclass of int.
IsInt(v) == v.type \in {"number", "bool"}

\* `key in v` for a decoded JSON value v; "TypeError" when v is not a container.
HasKey(v, key) ==
    CASE v.type = "object" -> key \in DOMAIN v.members
      [] v.type = "array"  -> \E i \in DOMAIN v.items : v.items[i] = JStr(key)
      [] OTHER             -> FALSE

\* dict.get(key): the member, or None when the key is absent.
Get(v, key) == IF key \in DOMAIN v.members THEN v.members[key] ELSE None

\* Python truthiness of a decoded JSON value.
Truthy(v) ==
    CASE v.type = "null"   -> FALSE
      [] v.type = "string" -> v.s # ""
      [] v.type = "number" -> v.n # 0
      [] v.type = "float"  -> v.n # 0
      [] v.type = "bool"   -> v.b
      [] v.type = "object" -> DOMAIN v.members # {}
      [] v.type = "array"  -> Len(v.items) > 0
      [] OTHER             -> TRUE

(***************************************************************************)
(* Exceptions: class names and their base classes                          *)
(***************************************************************************)
\* What requests.post raises (all are requests.exceptions.RequestException).
\* ConnectTimeout derives from both ConnectionError and Timeout.
RequestsBases(exc) ==
    CASE exc = "ConnectTimeout"  -> {"ConnectTimeout", "ConnectionError", "Timeout", "RequestException"}
      [] exc = "ReadTimeout"     -> {"ReadTimeout", "Timeout", "RequestException"}
      [] exc = "ConnectionError" -> {"ConnectionError", "RequestException"}
      [] exc = "ChunkedEncodingError" -> {"ChunkedEncodingError", "RequestException"}
      [] OTHER -> {}

\* emacs_porthole.exceptions
PortholeBases(exc) ==
    CASE exc = "ServerNotRunningError" ->
            {"ServerNotRunningError", "PortholeConnectionError", "PortholeCallError",
             "RequestException", "ConnectionError"}
      [] exc = "StrangeResponseError" ->
            {"StrangeResponseError", "ServerNotRunningError", "PortholeConnectionError",
             "PortholeCallError", "RequestException", "ConnectionError"}
      [] exc = "TimeoutError" ->
            {"TimeoutError", "PortholeConnectionError", "PortholeCallError",
             "RequestException", "Timeout"}
      [] exc = "HTTPError" ->
            {"HTTPError", "PortholeConnectionError", "PortholeCallError", "RequestException"}
      [] OTHER -> {}

\* emacs_porthole.json_rpc: JsonRpcError and its subclasses
JsonRpcErrors ==
    {"JsonRpcError", "ParseError", "InvalidRequestError", "MethodNotExposedError",
     "InvalidParamsError", "InternalMethodError"}
JsonRpcBases(exc) ==
    IF exc \in JsonRpcErrors THEN {exc, "JsonRpcError", "PortholeCallError"} ELSE {}

\* isinstance(exc, cls)
IsInstance(exc, cls) ==
    \/ exc = cls
    \/ cls \in RequestsBases(exc)
    \/ cls \in PortholeBases(exc)
    \/ cls \in JsonRpcBases(exc)
    \/ (exc = "JSONDecodeError" /\ cls = "ValueError")

\* How a call ends.
NoOutcome == [kind |-> "none"]
Returned(v) == [kind |-> "return", value |-> v]
\* underlying: the underlying_error attribute ("none" when there is none).
Raised(exc, underlying) == [kind |-> "raise", exc |-> exc, underlying |-> underlying]

(***************************************************************************)
(* Server names                                                            *)
(***************************************************************************)
\* A server name is a sequence of characters.  NameChars is the character
\* class [a-zA-Z0-9-] over the model's alphabet.
NameChars == {"a", "Z", "7", "-"}

\* re.match("^[a-zA-Z0-9-]+$", server_name): `$` also matches just before a
\* newline that ends the string.
RegexMatches(server_name) ==
    LET n == Len(server_name)
        body == IF n > 0 /\ server_name[n] = "\n"
                THEN SubSeq(server_name, 1, n - 1)
                ELSE server_name
    IN  /\ Len(body) > 0
        /\ \A i \in 1..Len(body) : body[i] \in NameChars

\* validate_server_name: TRUE when no ValueError is raised.
validate_server_name(server_name) == RegexMatches(server_name)

(***************************************************************************)
(* Session files                                                           *)
(***************************************************************************)
\* os.path.isfile is false.
NoFile == [type |-> "nofile"]

Ok(v) == [ok |-> TRUE, value |-> v]
Err(exc) == [ok |-> FALSE, exc |-> exc]

\* Mutant: no os.path.isfile check, open() raises on a missing file.
session_from_file_unchecked(file) ==
    IF file = NoFile
    THEN Err("FileNotFoundError")
    ELSE IF file = NotJson THEN Err("JSONDecodeError") ELSE Ok(file)

\* _session_from_file on a file in state `file`.
session_from_file(file) ==
    IF file # NoFile
    THEN IF file = NotJson
         THEN Err("JSONDecodeError")         \* json.load raises
         ELSE Ok(file)
    ELSE Err("ServerNotRunningError")

(***************************************************************************)
(* Responses and their validation (json_rpc.py, core._response_ok)         *)
(***************************************************************************)
\* A requests.Response: status code, Content-Type header (None when the
\* header is absent) and body text (NotJson, or the JSON value it decodes to).
Response(status_code, content_type, text) ==
    [status_code |-> status_code, content_type |-> content_type, text |-> text]

\* _valid_error
valid_error(error_part) ==
    /\ IsDict(error_part)
    /\ "code" \in DOMAIN error_part.members
    /\ "message" \in DOMAIN error_part.members
    /\ "data" \in DOMAIN error_part.members

\* The exception valid_response raises on a decoded value ("none" when it
\* returns): `"id" in response` needs a container, `response.get` a dict.
valid_response_raises(response) ==
    CASE response.type \in {"number", "float", "bool", "null"} -> "TypeError"
      [] response.type \in {"array", "string"} -> "AttributeError"
      [] OTHER -> "none"

\* Mutant: the protocol version not looked at.
valid_response_any_version(response) ==
    LET has_id == "id" \in DOMAIN response.members
        id_ == Get(response, "id")
        valid_id == has_id /\ (IsStr(id_) \/ IsInt(id_) \/ id_ = None)
        has_result == "result" \in DOMAIN response.members
    IN  /\ IsDict(response)
        /\ valid_id
        /\ (has_result \/ valid_error(Get(response, "error")))

\* valid_response on a decoded dict.
valid_response(response) ==
    LET has_id == "id" \in DOMAIN response.members
        id_ == Get(response, "id")
        valid_id == has_id /\ (IsStr(id_) \/ IsInt(id_) \/ id_ = None)
        has_result == "result" \in DOMAIN response.members
    IN  /\ IsDict(response)
        /\ Get(response, "jsonrpc") = JStr("2.0")
        /\ valid_id
        /\ (has_result \/ valid_error(Get(response, "error")))

\* valid_response_string: json.loads failing gives False.
valid_response_string_raises(text) ==
    IF text = NotJson THEN "none" ELSE valid_response_raises(text)

valid_response_string(text) ==
    IF text = NotJson THEN FALSE ELSE valid_response(text)

\* bool(response) is response.ok: no 4xx or 5xx status.
ResponseTruthy(response) == ~(response.status_code >= 400 /\ response.status_code < 600)

\* Mutant: the status code not looked at.
response_ok_head_any_status(response) ==
    response.content_type = JStr("application/json")

\* The `and` chain of _response_ok up to the body check.
response_ok_head(response) ==
    /\ ResponseTruthy(response)
    /\ response.status_code = 200
    /\ response.content_type = JStr("application/json")

\* The exception _response_ok raises ("none" when it returns).
response_ok_raises(response) ==
    IF response_ok_head(response)
    THEN valid_response_string_raises(response.text)
    ELSE "none"

\* _response_ok, when it returns.
response_ok(response) ==
    response_ok_head(response) /\ valid_response_string(response.text)

(***************************************************************************)
(* call, call_raw and raise_error: how a response or an exception of       *)
(* _send_request becomes the outcome of the call                           *)
(***************************************************************************)
DEFAULT_TIMEOUT == 1

\* The except clauses of call_raw around _send_request, in their order.
\* An exception that is no RequestException propagates unchanged.
call_raw_except(exc) ==
    IF IsInstance(exc, "ConnectionError")
    THEN Raised("ServerNotRunningError", exc)
    ELSE IF IsInstance(exc, "Timeout")
    THEN Raised("TimeoutError", exc)
    ELSE IF IsInstance(exc, "RequestException")
    THEN Raised("ServerNotRunningError", exc)
    ELSE Raised(exc, "none")

\* call_raw after _send_request returned `response`.  StrangeResponseError's
\* constructor reads response.headers["Content-Type"].
call_raw_response(response) ==
    IF response_ok_raises(response) # "none"
    THEN Raised(response_ok_raises(response), "none")
    ELSE IF response_ok(response)
    THEN Returned(response.text)
    ELSE IF response.status_code = 200
    THEN IF response.content_type = None
         THEN Raised("KeyError", "none")
         ELSE Raised("StrangeResponseError", "none")
    ELSE Raised("HTTPError", "none")

\* JsonRpcError._store_response: the exception it raises ("none" when it
\* returns) on a validated error response.
store_response_raises(json_rpc_response) ==
    LET data == json_rpc_response.members["error"].members["data"]
        elisp_error == IF data # None THEN Get(data, "underlying-error") ELSE None
    IN  IF data # None /\ ~IsDict(data)
        THEN "AttributeError"
        ELSE IF ~Truthy(elisp_error)
        THEN "none"
        ELSE IF ~IsDict(elisp_error)
        THEN "TypeError"
        ELSE IF {"type", "data"} \subseteq DOMAIN elisp_error.members
        THEN "none"
        ELSE "KeyError"

\* json_rpc.raise_error
raise_error(json_rpc_response) ==
    LET code == json_rpc_response.members["error"].members["code"]
        cls == CASE code = JNum(-32700) -> "ParseError"
                 [] code = JNum(-32600) -> "InvalidRequestError"
                 [] code = JNum(-32601) -> "MethodNotExposedError"
                 [] code = JNum(-32602) -> "InvalidParamsError"
                 [] code = JNum(-32603) -> "InternalMethodError"
                 [] OTHER               -> "JsonRpcError"
    IN  IF store_response_raises(json_rpc_response) # "none"
        THEN Raised(store_response_raises(json_rpc_response), "none")
        ELSE Raised(cls, "none")

\* Mutant: call hands back what call_raw returned, the whole envelope.
call_unwrap_whole_envelope(raw) == raw

\* call: unwrap what call_raw returned; what call_raw raised passes through.
call_unwrap(raw) ==
    IF raw.kind = "return"
    THEN IF "result" \in DOMAIN raw.value.members
         THEN Returned(raw.value.members["result"])
         ELSE raise_error(raw.value)
    ELSE raw

\* The timeout parameter inside call: the default when the caller passes none.
call_timeout(timeout) == IF timeout = {} THEN {DEFAULT_TIMEOUT} ELSE timeout

\* call_raw calls _send_request(server_name, request) without a timeout, so
\* _send_request's timeout parameter takes its default, None.
send_request_timeout(timeout) == {}

(***************************************************************************)
(* _try_to_post                                                            *)
(***************************************************************************)
\* What requests.post gives: a response, or the exception it raised.
PostResponse(response) == [error |-> "none", response |-> response]
PostError(exc) == [error |-> exc, response |-> None]

\* _prepare_request with the id _generate_unique_id gave.
prepare_request(method, params, id) ==
    JObj(("jsonrpc" :> JStr("2.0")) @@ ("method" :> method) @@ ("params" :> params)
            @@ ("id" :> id))

\* The exception _try_to_post itself raises before posting ("none" when it
\* posts): `"port" in session` and session.get need a dict.
try_to_post_raises(session) ==
    CASE session.type \in {"number", "float", "bool", "null"} -> "TypeError"
      [] ~HasKey(session, "port")            -> "ValueError"
      [] session.type # "object"             -> "AttributeError"
      [] OTHER                               -> "none"

\* `if not timeout: timeout = DEFAULT_TIMEOUT`
post_timeout(timeout) ==
    IF timeout = {} \/ timeout = {0} THEN {DEFAULT_TIMEOUT} ELSE timeout

\* The auth argument: a (username, password) pair, or None.
post_auth(session) ==
    LET username == Get(session, "username")
        password == Get(session, "password")
    IN  IF Truthy(username) \/ Truthy(password)
        THEN JArr(<< IF Truthy(username) THEN username ELSE JStr(""),
                     IF Truthy(password) THEN password ELSE JStr("") >>)
        ELSE None

\* The record of one requests.post call and what came of it.
Attempt(session, json, timeout, post) ==
    [session |-> session,
     json    |-> json,
     port    |-> Get(session, "port"),
     auth    |-> post_auth(session),
     timeout |-> post_timeout(timeout),
     error   |-> post.error,
     response |-> post.response]

(***************************************************************************)
(* The cache                                                               *)
(***************************************************************************)
session_info_cached_never(cache, server_name) == FALSE

\* _session_info_cached
session_info_cached(cache, server_name) == server_name \in DOMAIN cache

\* _session_from_cache: KeyError when there is no entry ("none" otherwise).
session_from_cache_raises(cache, server_name) ==
    IF server_name \in DOMAIN cache THEN "none" ELSE "KeyError"

session_from_cache_shortest_name(cache, server_name) ==
    cache[CHOOSE n \in DOMAIN cache : \A m \in DOMAIN cache : Len(n) <= Len(m)]

session_from_cache(cache, server_name) == cache[server_name]

\* Mutant: the session is not stored.
cache_session_dropped(cache, server_name, session) == cache

cache_session_merged(cache, server_name, session) ==
    IF server_name \in DOMAIN cache /\ IsDict(cache[server_name]) /\ IsDict(session)
    THEN (server_name :> JObj(session.members @@ cache[server_name].members)) @@ cache
    ELSE (server_name :> session) @@ cache

cache_session_only(cache, server_name, session) == (server_name :> session)

cache_session_keeps_existing(cache, server_name, session) ==
    IF server_name \in DOMAIN cache THEN cache ELSE (server_name :> session) @@ cache

\* _cache_session
cache_session(cache, server_name, session) == (server_name :> session) @@ cache

\* _send_request_from_cache
request_seems_to_have_failed(post) ==
    post.error # "none" \/ ~response_ok(post.response)

\* Mutants: the sessions compared by identity (`is`), which never holds for
\* a freshly loaded dict; and the comparison dropped, so no retry is made.
cached_session_correct_by_identity(cached, on_disk) == FALSE
cached_session_correct_unchecked(cached, on_disk) == TRUE

cached_session_correct_port_only(cached, on_disk) ==
    IF IsDict(cached) /\ IsDict(on_disk)
    THEN Get(cached, "port") = Get(on_disk, "port")
    ELSE cached = on_disk

cached_session_correct(cached, on_disk) == cached = on_disk

\* Mutant: a failed re-read answered with the outcome of the cached attempt.
reread_failure_keeps_original(exc, post) ==
    IF post.error # "none"
    THEN call_raw_except(post.error)
    ELSE call_unwrap(call_raw_response(post.response))

\* Line 281: what _session_from_file raises during the re-read leaves
\* _send_request_from_cache as it is; `post` (the cached attempt) is dropped.
reread_failure(exc, post) == call_raw_except(exc)

(***************************************************************************)
(* Inputs of the model                                                     *)
(***************************************************************************)
NumPorts == 2
Ports == 8000 .. (8000 + NumPorts - 1)

\* Session files the server writes: a port, with or without credentials.
PlainSession(port) == JObj("port" :> JNum(port))
AuthSession(port) ==
    JObj(("port" :> JNum(port)) @@ ("username" :> JStr("u")) @@ ("password" :> JStr("pw")))
\* A JSON object without a port.
NoPortSession == JObj(("username" :> JStr("u")) @@ ("password" :> JStr("pw")))

\* A session whose username is the empty string and that has no password.
BlankUserSession == JObj(("port" :> JNum(8000)) @@ ("username" :> JStr("")))

Sessions ==
    {PlainSession(port) : port \in Ports} \cup {AuthSession(8000), BlankUserSession}

\* What a session file can hold: a session, an object without a port, JSON
\* that is no object, or text that is no JSON.
FileContents == Sessions \cup {NoPortSession, JNum(5), NotJson}

\* Response bodies.
ResultBody ==
    JObj(("jsonrpc" :> JStr("2.0")) @@ ("result" :> JNum(6)) @@ ("id" :> JStr("x")))
\* A method that returned nil: the result is null.
NullResultBody ==
    JObj(("jsonrpc" :> JStr("2.0")) @@ ("result" :> None) @@ ("id" :> JStr("x")))

\* The "error" member of an error response.
ErrorPart(code, data) ==
    JObj(("code" :> JNum(code)) @@ ("message" :> JStr("m")) @@ ("data" :> data))
ErrorEnvelope(code, data) ==
    JObj(("jsonrpc" :> JStr("2.0")) @@ ("id" :> JStr("x")) @@ ("error" :> ErrorPart(code, data)))
ErrorBody == ErrorEnvelope(-32601, None)

\* The codes raise_error tells apart, and one it does not know.
ErrorCodes == {-32700, -32600, -32601, -32602, -32603, 1}

\* The underlying elisp error the server attaches to the data of an error.
ElispError == JObj(("type" :> JStr("void-function")) @@ ("data" :> JArr(<< JStr("f") >>)))
\* Values of the data member: null, a mapping with or without an underlying
\* error, an underlying error without its data, and a value that is no mapping.
ErrorData ==
    { None,
      JObj("underlying-error" :> ElispError),
      JObj("detail" :> JStr("d")),
      JObj("underlying-error" :> JObj("type" :> JStr("void-function"))),
      JStr("d") }

\* JSON of another service: objects without "jsonrpc", with a result or
\* with an error member of the right shape.
ForeignBody == JObj(("result" :> JNum(6)) @@ ("id" :> JNum(1)))
ForeignErrorBody == JObj(("id" :> JNum(1)) @@ ("error" :> ErrorPart(-32601, None)))

\* A result of another version of the protocol.
OldVersionBody ==
    JObj(("jsonrpc" :> JStr("1.0")) @@ ("result" :> JNum(6)) @@ ("id" :> JStr("x")))

JsonType == JStr("application/json")
HtmlType == JStr("text/html")

Responses ==
    { Response(200, JsonType, ResultBody),
      Response(200, JsonType, NullResultBody),
      Response(200, JsonType, ForeignBody),
      Response(200, JsonType, ForeignErrorBody),
      Response(200, JsonType, OldVersionBody),
      Response(200, JsonType, JArr(<< >>)),
      Response(200, JsonType, JNum(5)),
      Response(200, JsonType, NotJson),
      Response(200, HtmlType, NotJson),
      Response(200, None, NotJson),
      Response(201, JsonType, ResultBody),
      Response(401, HtmlType, NotJson),
      Response(404, None, NotJson),
      Response(500, JsonType, ErrorBody) }
    \cup {Response(200, JsonType, ErrorEnvelope(code, None)) : code \in ErrorCodes}
    \cup {Response(200, JsonType, ErrorEnvelope(-32603, data)) : data \in ErrorData}

TransportErrors == {"ConnectTimeout", "ReadTimeout", "ConnectionError", "ChunkedEncodingError"}

PostResults == {PostResponse(r) : r \in Responses} \cup {PostError(e) : e \in TransportErrors}

\* The callers of the model and the arguments they pass.
AllCallers == {1, 2}
ServerNames == { <<"a">>, <<"a", "_">>, <<"a", "\n">> }
\* The names validate_server_name lets through: each has a session file path.
ValidNames == {n \in ServerNames : validate_server_name(n)}
\* The names under which a Porthole server runs and writes its session file.
ServedNames == {n \in ValidNames : \A i \in 1..Len(n) : n[i] \in NameChars}
Methods == {JStr("+"), JNum(65)}
ParamsArgs == {JArr(<< >>), JNum(1)}
\* {} : the caller passes no timeout.
TimeoutArgs == {{}, {3}}
\* The ids uuid4 can give a request.
RequestIds == {JStr("id-1"), JStr("id-2")}

(***************************************************************************)
(* Initial state                                                           *)
(***************************************************************************)
Init ==
    /\ server_info_cache = << >>
    /\ session_file = [n \in ValidNames |-> NoFile]
    /\ pc = [p \in AllCallers |-> "idle"]
    /\ server = [p \in AllCallers |-> << >>]
    /\ timeout_arg = [p \in AllCallers |-> {}]
    /\ method_arg = [p \in AllCallers |-> None]
    /\ params_arg = [p \in AllCallers |-> None]
    /\ cached_session = [p \in AllCallers |-> None]
    /\ first_post = [p \in AllCallers |-> None]
    /\ session_on_disk = [p \in AllCallers |-> None]
    /\ outcome = [p \in AllCallers |-> NoOutcome]
    /\ attempts = [p \in AllCallers |-> << >>]
    /\ reads = [p \in AllCallers |-> << >>]
    /\ cache_before = [p \in AllCallers |-> << >>]
    /\ request = [p \in AllCallers |-> None]

(***************************************************************************)
(* The call, step by step                                                  *)
(***************************************************************************)
\* The call of caller p ends with outcome `out`.
Finish(p, out) ==
    /\ pc' = [pc EXCEPT ![p] = "done"]
    /\ outcome' = [outcome EXCEPT ![p] = out]

\* The timeout _try_to_post receives from caller p's call.
TimeoutPassedDown(p) == send_request_timeout(call_timeout(timeout_arg[p]))

\* call / call_raw up to _send_request: validate the server name, check
\* params, prepare the request.
Call(p, server_name, method, params, timeout, id) ==
    /\ pc[p] = "idle"
    /\ server' = [server EXCEPT ![p] = server_name]
    /\ timeout_arg' = [timeout_arg EXCEPT ![p] = timeout]
    /\ method_arg' = [method_arg EXCEPT ![p] = method]
    /\ params_arg' = [params_arg EXCEPT ![p] = params]
    /\ cache_before' = [cache_before EXCEPT ![p] = server_info_cache]
    /\ IF ~validate_server_name(server_name)
       THEN Finish(p, Raised("ValueError", "none"))
       ELSE IF params.type # "array"
       THEN Finish(p, Raised("ValueError", "none"))
       ELSE IF method.type # "string"
       THEN Finish(p, Raised("ValueError", "none"))
       ELSE /\ pc' = [pc EXCEPT ![p] = "send_request"]
            /\ UNCHANGED outcome
    /\ request' = [request EXCEPT ![p] =
                      IF /\ validate_server_name(server_name)
                         /\ params.type = "array"
                         /\ method.type = "string"
                      THEN prepare_request(method, params, id)
                      ELSE None]
    /\ UNCHANGED << server_info_cache, session_file, cached_session, first_post,
                    session_on_disk, attempts, reads >>

\* _send_request: use the cache when it has an entry for the server.
SendRequest(p) ==
    /\ pc[p] = "send_request"
    /\ IF session_info_cached(server_info_cache, server[p])
       THEN pc' = [pc EXCEPT ![p] = "from_cache"]
       ELSE pc' = [pc EXCEPT ![p] = "from_disk"]
    /\ UNCHANGED << server_info_cache, session_file, server, timeout_arg, method_arg, params_arg,
                    cached_session, first_post, session_on_disk, outcome, attempts, reads,
                    cache_before, request >>

\* _send_request_from_disk, line 308: read the session file.
FromDiskRead(p) ==
    /\ pc[p] = "from_disk"
    /\ LET r == session_from_file(session_file[server[p]])
       IN  /\ reads' = [reads EXCEPT ![p] = Append(@, session_file[server[p]])]
           /\ IF r.ok
              THEN /\ session_on_disk' = [session_on_disk EXCEPT ![p] = r.value]
                   /\ pc' = [pc EXCEPT ![p] = "from_disk_post"]
                   /\ UNCHANGED outcome
              ELSE /\ Finish(p, call_raw_except(r.exc))
                   /\ UNCHANGED session_on_disk
    /\ UNCHANGED << server_info_cache, session_file, server, timeout_arg, method_arg, params_arg,
                    cached_session, first_post, attempts, cache_before, request >>

\* _send_request_from_disk, lines 309-315: post with the session read; cache
\* it when requests.post raised nothing.
FromDiskPost(p, post) ==
    /\ pc[p] = "from_disk_post"
    /\ LET session == session_on_disk[p]
       IN  IF try_to_post_raises(session) # "none"
           THEN /\ Finish(p, call_raw_except(try_to_post_raises(session)))
                /\ UNCHANGED << attempts, server_info_cache >>
           ELSE /\ attempts' = [attempts EXCEPT ![p] =
                                  Append(@, Attempt(session, request[p], TimeoutPassedDown(p), post))]
                /\ IF post.error # "none"
                   THEN /\ Finish(p, call_raw_except(post.error))
                        /\ UNCHANGED server_info_cache
                   ELSE /\ server_info_cache' =
                               cache_session(server_info_cache, server[p], session)
                        /\ Finish(p, call_unwrap(call_raw_response(post.response)))
    /\ UNCHANGED << session_file, server, timeout_arg, method_arg, params_arg, cached_session, first_post,
                    session_on_disk, reads, cache_before, request >>

\* _send_request_from_cache, lines 273-278 and 301-303: take the session from
\* the cache and post with it; return the response when nothing seems to
\* have failed.
FromCachePost(p, post) ==
    /\ pc[p] = "from_cache"
    /\ IF session_from_cache_raises(server_info_cache, server[p]) # "none"
       THEN /\ Finish(p, call_raw_except(session_from_cache_raises(server_info_cache, server[p])))
            /\ UNCHANGED << cached_session, attempts, first_post >>
       ELSE LET session == session_from_cache(server_info_cache, server[p])
            IN  /\ cached_session' = [cached_session EXCEPT ![p] = session]
                /\ IF try_to_post_raises(session) # "none"
                   THEN /\ Finish(p, call_raw_except(try_to_post_raises(session)))
                        /\ UNCHANGED << attempts, first_post >>
                   ELSE /\ attempts' = [attempts EXCEPT ![p] =
                                          Append(@, Attempt(session, request[p], TimeoutPassedDown(p), post))]
                        /\ IF post.error = "none" /\ response_ok_raises(post.response) # "none"
                           THEN /\ Finish(p, call_raw_except(response_ok_raises(post.response)))
                                /\ UNCHANGED first_post
                           ELSE IF request_seems_to_have_failed(post)
                           THEN /\ first_post' = [first_post EXCEPT ![p] = post]
                                /\ pc' = [pc EXCEPT ![p] = "reread"]
                                /\ UNCHANGED outcome
                           ELSE /\ Finish(p, call_unwrap(call_raw_response(post.response)))
                                /\ UNCHANGED first_post
    /\ UNCHANGED << server_info_cache, session_file, server, timeout_arg, method_arg, params_arg,
                    session_on_disk, reads, cache_before, request >>

\* _send_request_from_cache, lines 281-293: re-read the session file and
\* compare it with the cached session.
FromCacheReread(p) ==
    /\ pc[p] = "reread"
    /\ LET r == session_from_file(session_file[server[p]])
       IN  /\ reads' = [reads EXCEPT ![p] = Append(@, session_file[server[p]])]
           /\ IF ~r.ok
              THEN /\ Finish(p, reread_failure(r.exc, first_post[p]))
                   /\ UNCHANGED << session_on_disk, server_info_cache >>
              ELSE /\ session_on_disk' = [session_on_disk EXCEPT ![p] = r.value]
                   /\ IF cached_session_correct(cached_session[p], r.value)
                      THEN /\ IF first_post[p].error # "none"
                              THEN Finish(p, call_raw_except(first_post[p].error))
                              ELSE Finish(p, call_unwrap(call_raw_response(first_post[p].response)))
                           /\ UNCHANGED server_info_cache
                      ELSE /\ server_info_cache' =
                                  cache_session(server_info_cache, server[p], r.value)
                           /\ pc' = [pc EXCEPT ![p] = "retry"]
                           /\ UNCHANGED outcome
    /\ UNCHANGED << session_file, server, timeout_arg, method_arg, params_arg, cached_session, first_post,
                    attempts, cache_before, request >>

\* Mutant: a second attempt that fails is made again, until one gets a
\* response (the record of the second attempt is replaced).
FromCacheRetry_until_response(p, post) ==
    /\ pc[p] = "retry"
    /\ LET session == session_on_disk[p]
           attempt == Attempt(session, request[p], send_request_timeout(call_timeout(timeout_arg[p])), post)
       IN  IF try_to_post_raises(session) # "none"
           THEN /\ pc' = [pc EXCEPT ![p] = "done"]
                /\ outcome' = [outcome EXCEPT ![p] = call_raw_except(try_to_post_raises(session))]
                /\ UNCHANGED attempts
           ELSE /\ attempts' = [attempts EXCEPT ![p] =
                                  IF Len(@) < 2 THEN Append(@, attempt)
                                                ELSE [@ EXCEPT ![2] = attempt]]
                /\ IF post.error # "none"
                   THEN UNCHANGED << pc, outcome >>
                   ELSE /\ pc' = [pc EXCEPT ![p] = "done"]
                        /\ outcome' = [outcome EXCEPT ![p] =
                                          call_unwrap(call_raw_response(post.response))]
    /\ UNCHANGED << server_info_cache, session_file, server, timeout_arg, method_arg, params_arg,
                    cached_session, first_post, session_on_disk, reads, cache_before, request >>

\* Mutant: the second attempt posts an envelope prepared anew, with an id
\* of its own.
FromCacheRetry_new_envelope(p, post) ==
    /\ pc[p] = "retry"
    /\ LET session == session_on_disk[p]
       IN  IF try_to_post_raises(session) # "none"
           THEN /\ Finish(p, call_raw_except(try_to_post_raises(session)))
                /\ UNCHANGED attempts
           ELSE /\ \E id \in RequestIds :
                      attempts' = [attempts EXCEPT ![p] =
                          Append(@, Attempt(session,
                                            prepare_request(method_arg[p], params_arg[p], id),
                                            TimeoutPassedDown(p), post))]
                /\ IF post.error # "none"
                   THEN Finish(p, call_raw_except(post.error))
                   ELSE Finish(p, call_unwrap(call_raw_response(post.response)))
    /\ UNCHANGED << server_info_cache, session_file, server, timeout_arg, method_arg, params_arg,
                    cached_session, first_post, session_on_disk, reads, cache_before, request >>

\* _send_request_from_cache, lines 294-300: post once more, with the session
\* read from the file.
FromCacheRetry(p, post) ==
    /\ pc[p] = "retry"
    /\ LET session == session_on_disk[p]
       IN  IF try_to_post_raises(session) # "none"
           THEN /\ Finish(p, call_raw_except(try_to_post_raises(session)))
                /\ UNCHANGED attempts
           ELSE /\ attempts' = [attempts EXCEPT ![p] =
                                  Append(@, Attempt(session, request[p], TimeoutPassedDown(p), post))]
                /\ IF post.error # "none"
                   THEN Finish(p, call_raw_except(post.error))
                   ELSE Finish(p, call_unwrap(call_raw_response(post.response)))
    /\ UNCHANGED << server_info_cache, session_file, server, timeout_arg, method_arg, params_arg,
                    cached_session, first_post, session_on_disk, reads, cache_before, request >>

\* The caller has the outcome; the frame of the call is gone.
Return(p) ==
    /\ pc[p] = "done"
    /\ pc' = [pc EXCEPT ![p] = "idle"]
    /\ server' = [server EXCEPT ![p] = << >>]
    /\ timeout_arg' = [timeout_arg EXCEPT ![p] = {}]
    /\ method_arg' = [method_arg EXCEPT ![p] = None]
    /\ params_arg' = [params_arg EXCEPT ![p] = None]
    /\ cached_session' = [cached_session EXCEPT ![p] = None]
    /\ first_post' = [first_post EXCEPT ![p] = None]
    /\ session_on_disk' = [session_on_disk EXCEPT ![p] = None]
    /\ outcome' = [outcome EXCEPT ![p] = NoOutcome]
    /\ attempts' = [attempts EXCEPT ![p] = << >>]
    /\ reads' = [reads EXCEPT ![p] = << >>]
    /\ cache_before' = [cache_before EXCEPT ![p] = << >>]
    /\ request' = [request EXCEPT ![p] = None]
    /\ UNCHANGED << server_info_cache, session_file >>

(***************************************************************************)
(* The environment: the Porthole server owns the session file              *)
(***************************************************************************)
\* The server starts (or something else writes the file).
WriteSessionFile(server_name, content) ==
    /\ \A p \in AllCallers : pc[p] # "done"
    /\ session_file[server_name] # content
    /\ session_file' = [session_file EXCEPT ![server_name] = content]
    /\ UNCHANGED << server_info_cache, pc, server, timeout_arg, method_arg, params_arg, cached_session,
                    first_post, session_on_disk, outcome, attempts, reads, cache_before, request >>

\* The server stops and removes its session file.
RemoveSessionFile(server_name) ==
    /\ \A p \in AllCallers : pc[p] # "done"
    /\ session_file[server_name] # NoFile
    /\ session_file' = [session_file EXCEPT ![server_name] = NoFile]
    /\ UNCHANGED << server_info_cache, pc, server, timeout_arg, method_arg, params_arg, cached_session,
                    first_post, session_on_disk, outcome, attempts, reads, cache_before, request >>

(***************************************************************************)
(* Specification: one caller, one call at a time.  The id of a request has *)
(* no influence on the course of a call: here the requests of a caller all *)
(* get the caller's id; SpecEnvelope below draws an id for each request.   *)
(***************************************************************************)
Callers == {1}

CallerId(p) == IF p = 1 THEN JStr("id-1") ELSE JStr("id-2")

Next ==
    \/ \E p \in Callers, n \in ServerNames, m \in Methods, a \in ParamsArgs, t \in TimeoutArgs :
            Call(p, n, m, a, t, CallerId(p))
    \/ \E p \in Callers : SendRequest(p)
    \/ \E p \in Callers : FromDiskRead(p)
    \/ \E p \in Callers, post \in PostResults : FromDiskPost(p, post)
    \/ \E p \in Callers, post \in PostResults : FromCachePost(p, post)
    \/ \E p \in Callers : FromCacheReread(p)
    \/ \E p \in Callers, post \in PostResults : FromCacheRetry(p, post)
    \/ \E p \in Callers : Return(p)
    \/ \E n \in ServedNames, c \in FileContents : WriteSessionFile(n, c)
    \/ \E n \in ServedNames : RemoveSessionFile(n)

Spec == Init /\ [][Next]_vars

(***************************************************************************)
(* Specification with fairness: a call that has started keeps running.     *)
(* requests.post is given a timeout, so every delivery attempt returns a   *)
(* response or raises; reading the session file and the cache returns.     *)
(***************************************************************************)
\* The steps of the call of caller p after it has started.
CallStep(p) ==
    \/ SendRequest(p)
    \/ FromDiskRead(p)
    \/ \E post \in PostResults : FromDiskPost(p, post)
    \/ \E post \in PostResults : FromCachePost(p, post)
    \/ FromCacheReread(p)
    \/ \E post \in PostResults : FromCacheRetry(p, post)

FairSpec == Spec /\ \A p \in Callers : WF_vars(CallStep(p))

(***************************************************************************)
(* Specification of concurrent calls: two threads of one process share     *)
(* _server_info_cache and interleave at every step of a call.  A session   *)
(* file can exist for every name the client accepts.  Each thread calls    *)
(* with well-formed arguments; a delivery attempt either brings a          *)
(* well-formed result or fails to connect.                                 *)
(***************************************************************************)
ConcurrentFiles == {PlainSession(8001), AuthSession(8000)}

ConcurrentPosts ==
    {PostResponse(Response(200, JsonType, ResultBody)), PostError("ConnectionError")}

NextConcurrent ==
    \/ \E p \in AllCallers, n \in ValidNames :
            Call(p, n, JStr("+"), JArr(<< >>), {}, CallerId(p))
    \/ \E p \in AllCallers : SendRequest(p)
    \/ \E p \in AllCallers : FromDiskRead(p)
    \/ \E p \in AllCallers, post \in ConcurrentPosts : FromDiskPost(p, post)
    \/ \E p \in AllCallers, post \in ConcurrentPosts : FromCachePost(p, post)
    \/ \E p \in AllCallers : FromCacheReread(p)
    \/ \E p \in AllCallers, post \in ConcurrentPosts : FromCacheRetry(p, post)
    \/ \E p \in AllCallers : Return(p)
    \/ \E n \in ValidNames, c \in ConcurrentFiles : WriteSessionFile(n, c)
    \/ \E n \in ValidNames : RemoveSessionFile(n)

SpecConcurrent == Init /\ [][NextConcurrent]_vars

(***************************************************************************)
(* Specification of the request envelope: calls that run one after the     *)
(* other, each with valid arguments and an id drawn anew; a delivery       *)
(* attempt brings the result or fails to connect.                          *)
(***************************************************************************)
EnvelopeMethods == {JStr("+"), JStr("-")}
EnvelopeParams == {JArr(<< JNum(1), JNum(2) >>), JArr(<< JNum(2), JNum(1) >>)}

NextEnvelope ==
    \/ \E p \in Callers, n \in ServedNames, m \in EnvelopeMethods, a \in EnvelopeParams,
          id \in RequestIds :
            Call(p, n, m, a, {}, id)
    \/ \E p \in Callers : SendRequest(p)
    \/ \E p \in Callers : FromDiskRead(p)
    \/ \E p \in Callers, post \in ConcurrentPosts : FromDiskPost(p, post)
    \/ \E p \in Callers, post \in ConcurrentPosts : FromCachePost(p, post)
    \/ \E p \in Callers : FromCacheReread(p)
    \/ \E p \in Callers, post \in ConcurrentPosts : FromCacheRetry(p, post)
    \/ \E p \in Callers : Return(p)
    \/ \E n \in ServedNames, c \in ConcurrentFiles : WriteSessionFile(n, c)
    \/ \E n \in ServedNames : RemoveSessionFile(n)

SpecEnvelope == Init /\ [][NextEnvelope]_vars

(***************************************************************************)
(* Specification of the cache alone: _cache_session applied to any name    *)
(* and any value, starting from the empty cache.  server and               *)
(* session_on_disk hold the arguments of the last store, cache_before the  *)
(* cache before it.                                                        *)
(***************************************************************************)
CacheSession(p, server_name, session) ==
    /\ pc[p] = "idle"
    /\ server' = [server EXCEPT ![p] = server_name]
    /\ session_on_disk' = [session_on_disk EXCEPT ![p] = session]
    /\ cache_before' = [cache_before EXCEPT ![p] = server_info_cache]
    /\ server_info_cache' = cache_session(server_info_cache, server_name, session)
    /\ UNCHANGED << session_file, pc, timeout_arg, method_arg, params_arg, cached_session,
                    first_post, outcome, attempts, reads, request >>

NextCache == \E p \in Callers, n \in ServerNames, c \in FileContents : CacheSession(p, n, c)

SpecCache == Init /\ [][NextCache]_vars

(***************************************************************************)
(* Specification of validate_server_name alone, applied to every string    *)
(* over an alphabet of letters, digits, "-", "_", "&" and newline          *)
(***************************************************************************)
MaxNameLen == 3
NameAlphabet == NameChars \cup {"_", "&", "\n"}
NameInputs == UNION {[1..n -> NameAlphabet] : n \in 0..MaxNameLen}

InitNames ==
    /\ server_info_cache = << >>
    /\ session_file = [n \in ValidNames |-> NoFile]
    /\ pc = [p \in AllCallers |-> "idle"]
    /\ \E n \in NameInputs : server = [p \in AllCallers |-> IF p \in Callers THEN n ELSE << >>]
    /\ timeout_arg = [p \in AllCallers |-> {}]
    /\ method_arg = [p \in AllCallers |-> None]
    /\ params_arg = [p \in AllCallers |-> None]
    /\ cached_session = [p \in AllCallers |-> None]
    /\ first_post = [p \in AllCallers |-> None]
    /\ session_on_disk = [p \in AllCallers |-> None]
    /\ outcome = [p \in AllCallers |-> NoOutcome]
    /\ attempts = [p \in AllCallers |-> << >>]
    /\ reads = [p \in AllCallers |-> << >>]
    /\ cache_before = [p \in AllCallers |-> << >>]
    /\ request = [p \in AllCallers |-> None]

\* validate_server_name(server[p]): returns None or raises ValueError.
ValidateName(p) ==
    /\ pc[p] = "idle"
    /\ IF validate_server_name(server[p])
       THEN Finish(p, Returned(None))
       ELSE Finish(p, Raised("ValueError", "none"))
    /\ UNCHANGED << server_info_cache, session_file, server, timeout_arg, method_arg, params_arg, cached_session,
                    first_post, session_on_disk, attempts, reads, cache_before, request >>

NextNames == \E p \in Callers : ValidateName(p)

SpecNames == InitNames /\ [][NextNames]_vars

(***************************************************************************)
(* Specification of the response validator alone (_response_ok with        *)
(* valid_response_string and valid_response), applied to responses built   *)
(* from every combination of status, content type and body members         *)
(***************************************************************************)
\* A member that may be absent: no member, or the member with one of `values`.
Opt(key, values) == { << >> } \cup {key :> v : v \in values}

ValidatorBodies ==
    { NotJson, JArr(<< >>), JNum(5), JStr("id"), None, JBool(TRUE) }
    \cup { JObj(version @@ id @@ result @@ error) :
             version \in Opt("jsonrpc", {JStr("2.0"), JStr("1.0"), JFloat(20)}),
             id \in Opt("id", {JStr("x"), JNum(1), None, JBool(TRUE), JFloat(15), JArr(<< >>)}),
             result \in Opt("result", {JNum(6), None}),
             error \in Opt("error", { ErrorPart(-32601, None),
                                      JObj(("code" :> JNum(-32601)) @@ ("message" :> JStr("m"))),
                                      JStr("e"),
                                      None }) }

ValidatorInputs ==
    { Response(status_code, content_type, text) :
        status_code \in {200, 201, 404},
        content_type \in {JsonType, HtmlType, None},
        text \in ValidatorBodies }

InitResponses ==
    /\ server_info_cache = << >>
    /\ session_file = [n \in ValidNames |-> NoFile]
    /\ pc = [p \in AllCallers |-> "idle"]
    /\ server = [p \in AllCallers |-> << >>]
    /\ timeout_arg = [p \in AllCallers |-> {}]
    /\ method_arg = [p \in AllCallers |-> None]
    /\ params_arg = [p \in AllCallers |-> None]
    /\ cached_session = [p \in AllCallers |-> None]
    /\ \E r \in ValidatorInputs :
          first_post = [p \in AllCallers |-> IF p \in Callers THEN PostResponse(r) ELSE None]
    /\ session_on_disk = [p \in AllCallers |-> None]
    /\ outcome = [p \in AllCallers |-> NoOutcome]
    /\ attempts = [p \in AllCallers |-> << >>]
    /\ reads = [p \in AllCallers |-> << >>]
    /\ cache_before = [p \in AllCallers |-> << >>]
    /\ request = [p \in AllCallers |-> None]

\* _response_ok(first_post[p].response): returns a truth value or raises.
CheckResponse(p) ==
    /\ pc[p] = "idle"
    /\ LET response == first_post[p].response
       IN  IF response_ok_raises(response) # "none"
           THEN Finish(p, Raised(response_ok_raises(response), "none"))
           ELSE Finish(p, Returned(JBool(response_ok(response))))
    /\ UNCHANGED << server_info_cache, session_file, server, timeout_arg, method_arg, params_arg,
                    cached_session, first_post, session_on_disk, attempts, reads, cache_before, request >>

NextResponses == \E p \in Callers : CheckResponse(p)

SpecResponses == InitResponses /\ [][NextResponses]_vars

(***************************************************************************)
(* Vocabulary of the properties                                            *)
(***************************************************************************)
Ended(p) == pc[p] = "done"

\* The cache had an entry for the call's server when the call started.
HadCacheEntry(p) == server[p] \in DOMAIN cache_before[p]
CachedBefore(p) == cache_before[p][server[p]]

\* A session descriptor: an object with a port.
IsDescriptor(file) == file.type = "object" /\ "port" \in DOMAIN file.members

\* The session file as the call's first read found it or, when the call read
\* nothing, as it is now.
DiskSeen(p) == IF reads[p] # << >> THEN reads[p][1] ELSE session_file[server[p]]

\* A well-formed response: status 200, the JSON content type, and a body
\* that is a mapping with jsonrpc "2.0", an id, and a result or a valid error.
IsWellFormed(response) ==
    /\ response.status_code = 200
    /\ response.content_type = JsonType
    /\ response.text.type = "object"
    /\ valid_response(response.text)

\* A delivery attempt that seems to have failed.
IsTransportFailure(a) == a.error # "none"
SeemsFailed(a) == IsTransportFailure(a) \/ ~IsWellFormed(a.response)

\* The attempt did not complete within the timeout.
IsTimeoutFailure(a) == a.error \in {"ConnectTimeout", "ReadTimeout"}

\* The call hands the response of attempt a to the caller: its result is
\* returned, or its error envelope is raised as an RpcFault.
ReturnsResponseOf(p, a) == outcome[p] = call_unwrap(Returned(a.response.text))

\* The call raises the transport failure of attempt a.
PropagatesFailureOf(p, a) == outcome[p].kind = "raise" /\ outcome[p].underlying = a.error

RaisesExactly(p, exc) == outcome[p].kind = "raise" /\ outcome[p].exc = exc

(***************************************************************************)
(* C1.  Given a cache entry that differs from the on-disk descriptor, a    *)
(* cached attempt that seems to have failed (transport failure or          *)
(* not-well-formed response) leads to exactly one disk re-read, the cache  *)
(* entry overwritten with the re-read descriptor and exactly one more      *)
(* attempt, made with the re-read descriptor; a well-formed response of    *)
(* that attempt is returned, a failure of it is propagated, and the cache  *)
(* holds the re-read descriptor when the call ends.                        *)
(* Violated: a cached attempt answered with status 200, the JSON content   *)
(* type and a body that is JSON but no mapping makes valid_response raise  *)
(* TypeError or AttributeError; the call ends without any disk read.       *)
(***************************************************************************)
C1_StaleCacheRecovers ==
    \A p \in AllCallers :
        ( /\ Ended(p)
          /\ HadCacheEntry(p)
          /\ Len(attempts[p]) >= 1
          /\ SeemsFailed(attempts[p][1])
          /\ IsDescriptor(DiskSeen(p))
          /\ DiskSeen(p) # CachedBefore(p) )
        => /\ Len(reads[p]) = 1
           /\ server_info_cache[server[p]] = reads[p][1]
           /\ Len(attempts[p]) = 2
           /\ attempts[p][2].session = reads[p][1]
           /\ (~SeemsFailed(attempts[p][2]) => ReturnsResponseOf(p, attempts[p][2]))
           /\ (IsTransportFailure(attempts[p][2]) => PropagatesFailureOf(p, attempts[p][2]))
           /\ (SeemsFailed(attempts[p][2]) => outcome[p].kind = "raise")

(***************************************************************************)
(* C2.  Given a cache entry equal to the on-disk descriptor, a transport   *)
(* failure of the cached attempt results in exactly one disk re-read, no   *)
(* second attempt, an unchanged cache, and the original failure re-raised  *)
(* as its own kind: Timeout for a timeout, ServerUnavailable for a         *)
(* connection failure.                                                     *)
(* Violated: a cached attempt that times out while connecting              *)
(* (ConnectTimeout) is re-raised as ServerNotRunningError.                 *)
(***************************************************************************)
C2_CorrectCacheReraises ==
    \A p \in AllCallers :
        ( /\ Ended(p)
          /\ HadCacheEntry(p)
          /\ Len(attempts[p]) >= 1
          /\ IsTransportFailure(attempts[p][1])
          /\ DiskSeen(p) = CachedBefore(p) )
        => /\ Len(reads[p]) = 1
           /\ Len(attempts[p]) = 1
           /\ server_info_cache = cache_before[p]
           /\ PropagatesFailureOf(p, attempts[p][1])
           /\ RaisesExactly(p, IF IsTimeoutFailure(attempts[p][1])
                               THEN "TimeoutError"
                               ELSE "ServerNotRunningError")

(***************************************************************************)
(* C3.  Given no cache entry and a readable session file, a call reads the *)
(* file exactly once and, whatever the outcome of the delivery attempt     *)
(* that follows, the cache entry of the server holds the descriptor read   *)
(* when the call ends.                                                     *)
(* Violated: when the attempt raises a transport failure,                  *)
(* _send_request_from_disk re-raises it without caching the descriptor.    *)
(***************************************************************************)
C3_DiskReadIsCached ==
    \A p \in AllCallers :
        ( /\ Ended(p)
          /\ ~HadCacheEntry(p)
          /\ Len(reads[p]) >= 1
          /\ IsDescriptor(reads[p][1])
          /\ Len(attempts[p]) >= 1 )
        => /\ Len(reads[p]) = 1
           /\ server[p] \in DOMAIN server_info_cache
           /\ server_info_cache[server[p]] = reads[p][1]

(***************************************************************************)
(* C4.  Every call performs at most two delivery attempts and at most two  *)
(* disk reads; a second delivery attempt happens only after a disk re-read *)
(* that returned a descriptor different from the cached one.               *)
(***************************************************************************)
C4_AtMostTwoAttempts ==
    \A p \in AllCallers :
        /\ Len(attempts[p]) <= 2
        /\ Len(reads[p]) <= 2
        /\ Len(attempts[p]) = 2 =>
              /\ HadCacheEntry(p)
              /\ attempts[p][1].session = CachedBefore(p)
              /\ Len(reads[p]) = 1
              /\ reads[p][1] # CachedBefore(p)
              /\ attempts[p][2].session = reads[p][1]

\* A call that made its second delivery attempt.
C4_Witness == \E p \in AllCallers : Ended(p) /\ Len(attempts[p]) = 2

(***************************************************************************)
(* C5.  Every delivery attempt of a call is issued with the timeout the    *)
(* caller passed, and with the default timeout only when the caller passed *)
(* none; the timeout used is always finite.                                *)
(* Violated: call_raw does not hand its timeout to _send_request, so every *)
(* attempt is issued with DEFAULT_TIMEOUT.                                 *)
(***************************************************************************)
C5_CallerTimeoutUsed ==
    \A p \in AllCallers : \A i \in 1..Len(attempts[p]) :
        /\ attempts[p][i].timeout # {}
        /\ attempts[p][i].timeout =
              (IF timeout_arg[p] = {} THEN {DEFAULT_TIMEOUT} ELSE timeout_arg[p])

(***************************************************************************)
(* C6.  The transport failure a call reports is classified into exactly    *)
(* two kinds: an attempt that did not complete within the timeout (while   *)
(* connecting or while waiting for the reply) makes the call raise Timeout *)
(* and not ServerUnavailable; every other transport failure makes it raise *)
(* ServerUnavailable and not Timeout.                                      *)
(* Violated: ConnectTimeout is a requests ConnectionError, which call_raw  *)
(* catches first and reports as ServerNotRunningError.                     *)
(***************************************************************************)
C6_TimeoutIsNotUnavailable ==
    \A p \in AllCallers : \A i \in 1..Len(attempts[p]) :
        (Ended(p) /\ IsTransportFailure(attempts[p][i]) /\ PropagatesFailureOf(p, attempts[p][i]))
        => RaisesExactly(p, IF IsTimeoutFailure(attempts[p][i])
                            THEN "TimeoutError"
                            ELSE "ServerNotRunningError")

C8_MissingFileUnavailable ==
    \A p \in AllCallers :
        ( /\ Ended(p)
          /\ ~HadCacheEntry(p)
          /\ reads[p] # << >>
          /\ reads[p][1] = NoFile )
        => /\ RaisesExactly(p, "ServerNotRunningError")
           /\ Len(reads[p]) = 1
           /\ attempts[p] = << >>
           /\ server[p] \notin DOMAIN server_info_cache

\* A call without a cache entry that found no session file.
C8_Witness ==
    \E p \in AllCallers :
        Ended(p) /\ ~HadCacheEntry(p) /\ reads[p] = << NoFile >>

(***************************************************************************)
(* C9.  Reading the session store fails with ServerUnavailable both when   *)
(* the session file does not exist and when it exists but cannot be parsed *)
(* as a descriptor; no other error type reaches the caller.                *)
(* Violated: json.load's JSONDecodeError (a ValueError) on a file that is  *)
(* no JSON is not caught anywhere and reaches the caller.                  *)
(***************************************************************************)
C9_UnreadableFileUnavailable ==
    \A p \in AllCallers :
        ( /\ Ended(p)
          /\ reads[p] # << >>
          /\ reads[p][Len(reads[p])] \in {NoFile, NotJson} )
        => RaisesExactly(p, "ServerNotRunningError")

(***************************************************************************)
(* C10.  When a cached attempt seems to have failed and the disk re-read   *)
(* then fails because the session file is gone, the call raises            *)
(* ServerUnavailable, makes no second delivery attempt, and reports        *)
(* neither the original transport failure nor the original response.       *)
(***************************************************************************)
C10_RereadMissingUnavailable ==
    \A p \in AllCallers :
        ( /\ Ended(p)
          /\ HadCacheEntry(p)
          /\ Len(attempts[p]) >= 1
          /\ SeemsFailed(attempts[p][1])
          /\ reads[p] # << >>
          /\ reads[p][1] = NoFile )
        => /\ RaisesExactly(p, "ServerNotRunningError")
           /\ outcome[p].underlying = "ServerNotRunningError"
           /\ Len(attempts[p]) = 1
           /\ Len(reads[p]) = 1

\* A call whose cached attempt got a response of another service and whose
\* re-read found the session file gone.
C10_Witness ==
    \E p \in AllCallers :
        /\ Ended(p)
        /\ HadCacheEntry(p)
        /\ Len(attempts[p]) = 1
        /\ attempts[p][1].error = "none"
        /\ reads[p] = << NoFile >>

(***************************************************************************)
(* C11.  Whenever a call raises ServerUnavailable because a delivery       *)
(* attempt failed to connect, the descriptor used by that failing attempt  *)
(* is equal to a descriptor the same call read from disk: never a cached   *)
(* descriptor the call did not confirm against disk.  The attempt whose    *)
(* failure a call reports is its last one.                                 *)
(***************************************************************************)
C11_UnavailableOnlyForDiskDescriptor ==
    \A p \in AllCallers :
        ( /\ Ended(p)
          /\ RaisesExactly(p, "ServerNotRunningError")
          /\ attempts[p] # << >>
          /\ IsTransportFailure(attempts[p][Len(attempts[p])])
          /\ PropagatesFailureOf(p, attempts[p][Len(attempts[p])]) )
        => \E j \in 1..Len(reads[p]) :
               reads[p][j] = attempts[p][Len(attempts[p])].session

\* A call whose cached attempt was refused, whose re-read found the cached
\* descriptor on disk, and which raised ServerNotRunningError for it.
C11_Witness ==
    \E p \in AllCallers :
        /\ Ended(p)
        /\ HadCacheEntry(p)
        /\ Len(attempts[p]) = 1
        /\ attempts[p][1].error = "ConnectionError"
        /\ attempts[p][1].session = CachedBefore(p)
        /\ reads[p] = << CachedBefore(p) >>
        /\ RaisesExactly(p, "ServerNotRunningError")
        /\ outcome[p].underlying = "ConnectionError"

(***************************************************************************)
(* C12.  Given a cached descriptor equal to the on-disk one, when the      *)
(* response of the cached attempt is not well-formed (wrong content type,  *)
(* or a body failing the structural check), the call raises                *)
(* UnexpectedResponse after exactly one disk re-read and without a second  *)
(* delivery attempt.  Stated here for responses with status 200 (C13       *)
(* covers the other statuses) whose body is no JSON or a JSON mapping (C19 *)
(* covers the validator on other JSON values).                             *)
(* Violated: a 200 response without a Content-Type header makes the        *)
(* constructor of StrangeResponseError raise KeyError.                     *)
(***************************************************************************)
C12_MalformedIsUnexpected ==
    \A p \in AllCallers :
        ( /\ Ended(p)
          /\ HadCacheEntry(p)
          /\ Len(attempts[p]) >= 1
          /\ ~IsTransportFailure(attempts[p][1])
          /\ attempts[p][1].response.status_code = 200
          /\ attempts[p][1].response.text.type \in {"object", "invalid"}
          /\ ~IsWellFormed(attempts[p][1].response)
          /\ DiskSeen(p) = CachedBefore(p) )
        => /\ RaisesExactly(p, "StrangeResponseError")
           /\ Len(reads[p]) = 1
           /\ Len(attempts[p]) = 1

\* The last delivery attempt of the call.
LastAttempt(p) == attempts[p][Len(attempts[p])]

\* The call evaluates a final response: _send_request returned the response
\* of the last attempt to call_raw (line 146).  A cached attempt that seemed
\* to have failed is returned only when the re-read found the cached session.
EvaluatesResponse(p) ==
    /\ Ended(p)
    /\ attempts[p] # << >>
    /\ ~IsTransportFailure(LastAttempt(p))
    /\ (HadCacheEntry(p) /\ Len(attempts[p]) = 1) =>
          \/ reads[p] = << CachedBefore(p) >>
          \/ reads[p] = << >> /\ response_ok_raises(LastAttempt(p).response) = "none"

(***************************************************************************)
(* C13.  When the response a call finally evaluates has an HTTP status     *)
(* other than 200, the call raises HttpFault (never UnexpectedResponse,    *)
(* RpcFault or a result), also when the body of that response is a         *)
(* structurally valid JSON-RPC error envelope.                             *)
(***************************************************************************)
C13_Non200IsHttpFault ==
    \A p \in AllCallers :
        (EvaluatesResponse(p) /\ LastAttempt(p).response.status_code # 200)
        => RaisesExactly(p, "HTTPError")

\* A call that evaluated a 500 response carrying a valid error envelope.
C13_Witness ==
    \E p \in AllCallers :
        /\ EvaluatesResponse(p)
        /\ LastAttempt(p).response.status_code = 500
        /\ LastAttempt(p).response.content_type = JsonType
        /\ LastAttempt(p).response.text = ErrorBody
        /\ RaisesExactly(p, "HTTPError")

\* The error types a call may raise: InvalidArgument, ServerUnavailable,
\* Timeout, UnexpectedResponse, HttpFault and RpcFault, with their subclasses.
Taxonomy ==
    {"ValueError", "ServerNotRunningError", "TimeoutError", "StrangeResponseError",
     "HTTPError", "JsonRpcError"}
InTaxonomy(exc) == \E cls \in Taxonomy : IsInstance(exc, cls)

(***************************************************************************)
(* C14.  For every session-file state and every server behaviour (any      *)
(* status code, Content-Type present or absent, any body, any envelope,    *)
(* any value of the data field of the error) a call either returns the     *)
(* unwrapped result or raises one of InvalidArgument, ServerUnavailable,   *)
(* Timeout, UnexpectedResponse, RpcFault or HttpFault; no other error type *)
(* reaches the caller.  Stated here for the calls whose final response is  *)
(* well-formed.                                                            *)
(* Violated: an error envelope whose data is not a mapping (or whose       *)
(* underlying error lacks a member) makes JsonRpcError._store_response     *)
(* raise AttributeError (KeyError) in place of the RpcFault.               *)
(***************************************************************************)
C14_OnlyTaxonomyErrors ==
    \A p \in AllCallers :
        (EvaluatesResponse(p) /\ IsWellFormed(LastAttempt(p).response))
        => \/ outcome[p].kind = "return"
           \/ outcome[p].kind = "raise" /\ InTaxonomy(outcome[p].exc)

\* A valid server name: not empty, made only of A-Z, a-z, 0-9 and "-".
IsValidName(server_name) ==
    /\ Len(server_name) > 0
    /\ \A i \in 1..Len(server_name) : server_name[i] \in NameChars

(***************************************************************************)
(* C15.  Over every string built from an alphabet containing letters,      *)
(* digits, "-", "_", "&" and newline (including the empty string),         *)
(* validate_server_name raises ValueError exactly when the string is empty *)
(* or contains a character other than A-Z, a-z, 0-9 and "-", and never     *)
(* raises it for a non-empty string made only of those characters.         *)
(* Violated: `$` also matches before a newline that ends the string, so a  *)
(* valid name followed by one newline is accepted.                         *)
(***************************************************************************)
C15_NameRejectedIffInvalid ==
    \A p \in AllCallers :
        Ended(p) => (RaisesExactly(p, "ValueError") <=> ~IsValidName(server[p]))

(***************************************************************************)
(* C16.  When the server name is invalid, the method is not a string, or   *)
(* params is not a list, the call fails with InvalidArgument (ValueError)  *)
(* before any I/O: zero disk reads, zero delivery attempts, and the cache  *)
(* is unchanged.                                                           *)
(* Violated: a valid name followed by a newline passes                     *)
(* validate_server_name (C15), and the call goes on to read the session    *)
(* file of that name.                                                      *)
(***************************************************************************)
C16_InvalidArgumentBeforeIO ==
    \A p \in AllCallers :
        ( /\ Ended(p)
          /\ \/ ~IsValidName(server[p])
             \/ method_arg[p].type # "string"
             \/ params_arg[p].type # "array" )
        => /\ RaisesExactly(p, "ValueError")
           /\ reads[p] = << >>
           /\ attempts[p] = << >>
           /\ server_info_cache = cache_before[p]

\* The body of the response the call finally evaluates.
FinalBody(p) == LastAttempt(p).response.text

\* The RpcFault variant that belongs to an error code.
RpcFaultFor(code) ==
    CASE code = -32700 -> "ParseError"
      [] code = -32600 -> "InvalidRequestError"
      [] code = -32601 -> "MethodNotExposedError"
      [] code = -32602 -> "InvalidParamsError"
      [] code = -32603 -> "InternalMethodError"
      [] OTHER         -> "JsonRpcError"

(***************************************************************************)
(* C17.  When the final response is a well-formed error envelope, call     *)
(* raises the RpcFault variant selected by the error code: -32700 parse    *)
(* error, -32600 invalid request, -32601 method not exposed, -32602        *)
(* invalid parameters, -32603 internal method failure, and the generic     *)
(* RpcFault for every other code.                                          *)
(* Violated: the envelope is well-formed whatever its data member holds;   *)
(* with a data that is no mapping the constructor of the variant raises    *)
(* AttributeError (C14).                                                   *)
(***************************************************************************)
C17_RpcFaultByCode ==
    \A p \in AllCallers :
        ( /\ EvaluatesResponse(p)
          /\ IsWellFormed(LastAttempt(p).response)
          /\ "result" \notin DOMAIN FinalBody(p).members )
        => RaisesExactly(p, RpcFaultFor(FinalBody(p).members["error"].members["code"].n))

(***************************************************************************)
(* C18.  When the final response is well-formed and has a result field,    *)
(* call returns exactly that result value (also when the value is null)    *)
(* and raises nothing.                                                     *)
(***************************************************************************)
C18_ResultReturned ==
    \A p \in AllCallers :
        ( /\ EvaluatesResponse(p)
          /\ IsWellFormed(LastAttempt(p).response)
          /\ "result" \in DOMAIN FinalBody(p).members )
        => outcome[p] = Returned(FinalBody(p).members["result"])

\* A call that returned the null result of its final response.
C18_Witness ==
    \E p \in AllCallers :
        /\ EvaluatesResponse(p)
        /\ FinalBody(p) = NullResultBody
        /\ outcome[p] = Returned(None)

\* Well-formed, in the words of the specification: status 200, the JSON
\* content type, and a body that is a mapping with jsonrpc "2.0", an id that
\* is a string, an integer or null, and a result or an error that is a
\* mapping with code, message and data.
WellFormedAsSpecified(response) ==
    /\ response.status_code = 200
    /\ response.content_type = JsonType
    /\ response.text.type = "object"
    /\ "jsonrpc" \in DOMAIN response.text.members
    /\ response.text.members["jsonrpc"] = JStr("2.0")
    /\ "id" \in DOMAIN response.text.members
    /\ response.text.members["id"].type \in {"string", "number", "null"}
    /\ \/ "result" \in DOMAIN response.text.members
       \/ /\ "error" \in DOMAIN response.text.members
          /\ response.text.members["error"].type = "object"
          /\ {"code", "message", "data"} \subseteq DOMAIN response.text.members["error"].members

(***************************************************************************)
(* C19.  The response validator returns true exactly when the response has *)
(* status 200, the JSON content type, and a decoded body that is a mapping *)
(* with jsonrpc equal to "2.0", an id field whose value is a string,       *)
(* integer or null, and either a result field or an error field that is a  *)
(* mapping containing code, message and data; for every other response,    *)
(* including a body that decodes to a non-mapping JSON value, it returns   *)
(* false rather than failing.                                              *)
(* Violated: valid_response applies `in` and .get to the decoded body      *)
(* before it tests isinstance(response, dict), so a body that is JSON but  *)
(* no mapping raises TypeError or AttributeError.                          *)
(***************************************************************************)
C19_ValidatorTotal ==
    \A p \in AllCallers :
        Ended(p) =>
            outcome[p] = Returned(JBool(WellFormedAsSpecified(first_post[p].response)))

(***************************************************************************)
(* C20.  A call whose final response has status 200 and a JSON body        *)
(* lacking jsonrpc equal to "2.0" never raises an RpcFault and never       *)
(* returns a result, even when that body contains a result field or a      *)
(* structurally valid error field.                                         *)
(***************************************************************************)
C20_NoVersionNoRpcFault ==
    \A p \in AllCallers :
        ( /\ Ended(p)
          /\ attempts[p] # << >>
          /\ ~IsTransportFailure(LastAttempt(p))
          /\ LastAttempt(p).response.status_code = 200
          /\ FinalBody(p) # NotJson
          /\ ~(FinalBody(p).type = "object"
                  /\ "jsonrpc" \in DOMAIN FinalBody(p).members
                  /\ FinalBody(p).members["jsonrpc"] = JStr("2.0")) )
        => /\ outcome[p].kind = "raise"
           /\ ~IsInstance(outcome[p].exc, "JsonRpcError")

\* A call that evaluated a 200 response whose body has an error member of the
\* right shape but no jsonrpc member, and raised StrangeResponseError.
C20_Witness ==
    \E p \in AllCallers :
        /\ EvaluatesResponse(p)
        /\ LastAttempt(p).response = Response(200, JsonType, ForeignErrorBody)
        /\ RaisesExactly(p, "StrangeResponseError")

C22_SquatterRecovery ==
    \A p \in AllCallers :
        ( /\ Ended(p)
          /\ HadCacheEntry(p)
          /\ Len(attempts[p]) >= 1
          /\ \/ IsTimeoutFailure(attempts[p][1])
             \/ /\ ~IsTransportFailure(attempts[p][1])
                /\ ~IsWellFormed(attempts[p][1].response)
          /\ IsDescriptor(DiskSeen(p))
          /\ DiskSeen(p) # CachedBefore(p) )
        => /\ Len(reads[p]) = 1
           /\ Len(attempts[p]) = 2
           /\ attempts[p][2].session = reads[p][1]
           /\ attempts[p][2].error = "none" /\ attempts[p][2].response = Response(200, JsonType, ResultBody)
                 => outcome[p] = Returned(JNum(6))

(***************************************************************************)
(* C23.  Every call terminates, returning a result or raising an error,    *)
(* after finitely many steps provided every delivery attempt returns or    *)
(* fails within its timeout; the coordinator never loops, even when the    *)
(* cache is wrong before and after the disk re-read.                       *)
(***************************************************************************)
C23_CallTerminates ==
    \A p \in Callers : (pc[p] # "idle") ~> Ended(p)

\* A call that ended after two failed attempts: the cached descriptor and
\* the one on disk were both wrong.
C23_Witness ==
    \E p \in AllCallers :
        /\ Ended(p)
        /\ Len(attempts[p]) = 2
        /\ IsTransportFailure(attempts[p][1])
        /\ IsTransportFailure(attempts[p][2])
        /\ outcome[p].kind = "raise"

(***************************************************************************)
(* C24  Under any interleaving of concurrent calls, for the same or for    *)
(* different server names, a cache entry is always one whole descriptor    *)
(* that a call read from disk for that name: every step that adds or       *)
(* changes the entry of a name installs exactly the value that a call for  *)
(* that name read last from the session file, never a mixture of two       *)
(* descriptors and never a value read for another name.                    *)
(***************************************************************************)
\* The value caller p read from disk last, in the next state.
LastReadNext(p) == reads'[p][Len(reads'[p])]

C24_CacheEntryIsWholeDiskDescriptor ==
    [][\A n \in DOMAIN server_info_cache' :
          (n \notin DOMAIN server_info_cache \/ server_info_cache'[n] # server_info_cache[n])
          => \E p \in AllCallers :
                /\ server[p] = n
                /\ reads'[p] # << >>
                /\ server_info_cache'[n] = LastReadNext(p)]_vars

\* Two calls for one name are in flight, each has re-read the session file
\* and overwritten the entry, with different descriptors.
C24_Witness ==
    \E p, q \in AllCallers :
        /\ p # q
        /\ server[p] = server[q]
        /\ pc[p] = "retry" /\ pc[q] = "retry"
        /\ session_on_disk[p] # session_on_disk[q]
        /\ server_info_cache[server[p]] = session_on_disk[q]

(***************************************************************************)
(* C25  Cache entries are never removed: a name that has an entry has one  *)
(* after every step, whatever the calls and their outcomes, and a call     *)
(* that found an entry and is about to read it finds it still there, also  *)
(* while other calls run.                                                  *)
(***************************************************************************)
C25_EntriesNeverRemoved ==
    [][/\ \A n \in DOMAIN server_info_cache : n \in DOMAIN server_info_cache'
       /\ \A p \in AllCallers :
             pc'[p] = "from_cache" => server'[p] \in DOMAIN server_info_cache']_vars

\* A call found the entry and has not read it yet, while another call for
\* the same name has just overwritten the entry, and the other name has an
\* entry too.
C25_Witness ==
    \E p, q \in AllCallers :
        /\ p # q
        /\ server[p] = server[q]
        /\ pc[p] = "from_cache"
        /\ pc[q] = "retry"
        /\ DOMAIN server_info_cache = ValidNames

(***************************************************************************)
(* C26  Every descriptor stored in the cache has a port: no sequence of    *)
(* calls and session-file contents leaves a cache entry that is no mapping *)
(* or has no port field.                                                   *)
(***************************************************************************)
C26_CachedDescriptorHasPort ==
    \A n \in DOMAIN server_info_cache : IsDescriptor(server_info_cache[n])

(***************************************************************************)
(* C27  Every response accepted as well-formed carries exactly one of a    *)
(* result member and an error member: a body that carries both is not      *)
(* accepted as a response envelope.                                        *)
(***************************************************************************)
\* The body carries an error: an error member that is not null.
CarriesError(members) == "error" \in DOMAIN members /\ members["error"] # None

C27_ResultXorError ==
    \A p \in AllCallers :
        (Ended(p) /\ outcome[p] = Returned(JBool(TRUE)))
        => LET members == first_post[p].response.text.members
           IN  ("result" \in DOMAIN members) # CarriesError(members)

(***************************************************************************)
(* C29  A delivery attempt carries HTTP Basic credentials exactly when the *)
(* descriptor it uses has a username or a password field; a field that is  *)
(* present but the empty string counts as present, and the credentials     *)
(* sent are the two fields, an absent one sent as the empty string.        *)
(***************************************************************************)
\* The descriptor has a username or a password field.
HasCredentials(session) == HasKey(session, "username") \/ HasKey(session, "password")

\* The field as it is sent: the empty string when the field is absent.
FieldOrBlank(session, key) == IF HasKey(session, key) THEN Get(session, key) ELSE JStr("")

C29_BasicAuthIffFieldPresent ==
    \A p \in AllCallers : \A i \in 1..Len(attempts[p]) :
        LET session == attempts[p][i].session
            auth == attempts[p][i].auth
        IN  /\ (auth # None) <=> HasCredentials(session)
            /\ HasCredentials(session) =>
                  auth = JArr(<< FieldOrBlank(session, "username"),
                                 FieldOrBlank(session, "password") >>)

(***************************************************************************)
(* C30  When the cache holds a descriptor for the server name and the      *)
(* cached attempt gets a well-formed response, the call ends after exactly *)
(* one delivery attempt, has read the session file zero times and has left *)
(* the cache unchanged, even if the session file is missing or holds a     *)
(* different descriptor.                                                   *)
(***************************************************************************)
C30_CachedAttemptSuffices ==
    \A p \in AllCallers :
        ( /\ HadCacheEntry(p)
          /\ attempts[p] # << >>
          /\ ~SeemsFailed(attempts[p][1]) )
        => /\ Ended(p)
           /\ Len(attempts[p]) = 1
           /\ attempts[p][1].session = CachedBefore(p)
           /\ reads[p] = << >>
           /\ server_info_cache = cache_before[p]

\* Such a call ended while the session file was missing.
C30_Witness ==
    \E p \in AllCallers :
        /\ Ended(p)
        /\ HadCacheEntry(p)
        /\ Len(attempts[p]) = 1
        /\ ~SeemsFailed(attempts[p][1])
        /\ session_file[server[p]] = NoFile

(***************************************************************************)
(* C31  The staleness comparison takes the cached and the on-disk          *)
(* descriptor for equal only if port, username and password all compare    *)
(* equal, including which of them are present.  A cached descriptor that   *)
(* differs from the one on disk only in its credentials and whose attempt  *)
(* the server rejects leads to the cache overwritten with the on-disk      *)
(* descriptor and a second attempt made with it, whose result is returned. *)
(***************************************************************************)
\* Both descriptors have the field with equal values, or both lack it.
SameField(a, b, key) ==
    /\ HasKey(a, key) <=> HasKey(b, key)
    /\ HasKey(a, key) => Get(a, key) = Get(b, key)

\* The descriptors have the same port and differ in their credentials.
DifferOnlyInCredentials(a, b) ==
    /\ IsDescriptor(a) /\ IsDescriptor(b)
    /\ SameField(a, b, "port")
    /\ ~(SameField(a, b, "username") /\ SameField(a, b, "password"))

\* The call started from a cache entry, its cached attempt seemed to have
\* failed and it re-read a descriptor from disk.
RereadDescriptor(p) ==
    /\ Ended(p)
    /\ HadCacheEntry(p)
    /\ IsDescriptor(CachedBefore(p))
    /\ Len(reads[p]) = 1
    /\ IsDescriptor(reads[p][1])

C31_ComparisonByAllFields ==
    \A p \in AllCallers :
        RereadDescriptor(p) =>
            /\ Len(attempts[p]) = 1 =>
                  /\ SameField(CachedBefore(p), reads[p][1], "port")
                  /\ SameField(CachedBefore(p), reads[p][1], "username")
                  /\ SameField(CachedBefore(p), reads[p][1], "password")
            /\ ( /\ DifferOnlyInCredentials(CachedBefore(p), reads[p][1])
                 /\ attempts[p][1].error = "none"
                 /\ attempts[p][1].response.status_code = 401 )
               => /\ Len(attempts[p]) = 2
                  /\ attempts[p][2].session = reads[p][1]
                  /\ server_info_cache[server[p]] = reads[p][1]
                  /\ ( /\ attempts[p][2].error = "none"
                       /\ attempts[p][2].response = Response(200, JsonType, ResultBody) )
                     => outcome[p] = Returned(JNum(6))

\* The cache held the port of the server with other credentials than the
\* session file, the server answered the cached attempt with 401 and the
\* second attempt with the result, which the call returned.
C31_Witness ==
    \E p \in AllCallers :
        /\ RereadDescriptor(p)
        /\ DifferOnlyInCredentials(CachedBefore(p), reads[p][1])
        /\ attempts[p][1].error = "none"
        /\ attempts[p][1].response.status_code = 401
        /\ Len(attempts[p]) = 2
        /\ attempts[p][2].auth # None
        /\ outcome[p] = Returned(JNum(6))

(***************************************************************************)
(* C32  Storing a descriptor for a name overwrites unconditionally: after  *)
(* the store the name has an entry and reading it gives the stored         *)
(* descriptor, whatever the entry held before; the entries of all other    *)
(* names are as they were; a name never stored has no entry.               *)
(***************************************************************************)
C32_StoreOverwrites ==
    \A p \in Callers :
        IF server[p] = << >>
        THEN \A n \in ServerNames : ~session_info_cached(server_info_cache, n)
        ELSE /\ session_info_cached(server_info_cache, server[p])
             /\ session_from_cache_raises(server_info_cache, server[p]) = "none"
             /\ session_from_cache(server_info_cache, server[p]) = session_on_disk[p]
             /\ \A n \in ServerNames \ {server[p]} :
                   /\ session_info_cached(server_info_cache, n)
                         <=> session_info_cached(cache_before[p], n)
                   /\ session_info_cached(server_info_cache, n) =>
                         session_from_cache(server_info_cache, n)
                            = session_from_cache(cache_before[p], n)

\* A store replaced an entry that held another value, while another name
\* had an entry and a third had none.
C32_Witness ==
    \E p \in Callers :
        /\ server[p] # << >>
        /\ session_info_cached(cache_before[p], server[p])
        /\ session_from_cache(cache_before[p], server[p]) # session_on_disk[p]
        /\ \E n, m \in ServerNames \ {server[p]} :
              /\ session_info_cached(server_info_cache, n)
              /\ ~session_info_cached(server_info_cache, m)

(***************************************************************************)
(* C33  Whatever the cache holds after earlier calls: when the session     *)
(* file holds, for the whole call, a descriptor with a port at which the   *)
(* server answers with the result, and nothing answers at any other port,  *)
(* a call with valid arguments for that server name returns the result.    *)
(* No cache content makes the call fail without the session file being     *)
(* re-read.                                                                *)
(***************************************************************************)
\* The call of p passed the checks of its arguments.
ArgumentsValid(p) ==
    /\ server[p] \in DOMAIN session_file
    /\ method_arg[p].type = "string"
    /\ params_arg[p].type = "array"

\* During the call of p the session file held one descriptor, the server
\* answered every attempt made with it with the result, and every attempt
\* made with another descriptor failed to connect.
ServerLiveOnDisk(p) ==
    /\ IsDescriptor(session_file[server[p]])
    /\ \A i \in 1..Len(reads[p]) : reads[p][i] = session_file[server[p]]
    /\ \A i \in 1..Len(attempts[p]) :
          IF attempts[p][i].session = session_file[server[p]]
          THEN /\ attempts[p][i].error = "none"
               /\ attempts[p][i].response = Response(200, JsonType, ResultBody)
          ELSE attempts[p][i].error = "ConnectionError"

C33_NoPermanentFailure ==
    \A p \in AllCallers :
        (Ended(p) /\ ArgumentsValid(p) /\ ServerLiveOnDisk(p))
        => outcome[p] = Returned(JNum(6))

(***************************************************************************)
(* C34  Under concurrent calls for one server name while the descriptor on *)
(* disk changes: once a call has stored the descriptor that is on disk now *)
(* in the cache, no other call that is in flight and read an earlier       *)
(* descriptor from disk replaces the entry with that earlier descriptor.   *)
(* As a step property: while the entry of a name equals the descriptor on  *)
(* disk and the file stays as it is, no step of a call changes the entry.  *)
(***************************************************************************)
C34_NoStaleOverwrite ==
    [][\A n \in DOMAIN server_info_cache :
          ( /\ IsDescriptor(session_file[n])
            /\ server_info_cache[n] = session_file[n]
            /\ session_file'[n] = session_file[n] )
          => server_info_cache'[n] = server_info_cache[n]]_vars

(***************************************************************************)
(* C35  When a call that started from a cache entry re-reads the session   *)
(* file and the re-read succeeds, the cache entry of that server name is   *)
(* the re-read value when the call ends (no other call running), whether   *)
(* the call ends with a result or with an error.                           *)
(***************************************************************************)
C35_CacheEqualsRereadAtEnd ==
    \A p \in AllCallers :
        ( /\ Ended(p)
          /\ HadCacheEntry(p)
          /\ Len(reads[p]) = 1
          /\ session_from_file(reads[p][1]).ok )
        => /\ server[p] \in DOMAIN server_info_cache
           /\ server_info_cache[server[p]] = session_from_file(reads[p][1]).value

\* The re-read found another descriptor than the cached one and the call
\* ended with the failure of its second attempt.
C35_Witness ==
    \E p \in AllCallers :
        /\ Ended(p)
        /\ HadCacheEntry(p)
        /\ Len(reads[p]) = 1
        /\ session_from_file(reads[p][1]).ok
        /\ reads[p][1] # CachedBefore(p)
        /\ Len(attempts[p]) = 2
        /\ IsTransportFailure(attempts[p][2])
        /\ outcome[p].kind = "raise"

(***************************************************************************)
(* C36  Both delivery attempts of a call send the identical request        *)
(* envelope: the one envelope the call built, with the method and the      *)
(* params of the call, in their order, and with one id.  No second id is   *)
(* generated for the retry.                                                *)
(***************************************************************************)
C36_OneEnvelopePerCall ==
    \A p \in AllCallers :
        /\ \A i \in 1..Len(attempts[p]) :
              /\ attempts[p][i].json = request[p]
              /\ attempts[p][i].json.members["method"] = method_arg[p]
              /\ attempts[p][i].json.members["params"] = params_arg[p]
        /\ Len(attempts[p]) = 2 => attempts[p][1].json = attempts[p][2].json

\* A call that made two attempts, with params of two elements.
C36_Witness ==
    \E p \in AllCallers :
        /\ Ended(p)
        /\ Len(attempts[p]) = 2
        /\ attempts[p][2].json.members["id"] = JStr("id-2")
        /\ attempts[p][2].json.members["params"] = JArr(<< JNum(2), JNum(1) >>)

(***************************************************************************)
(* C37  A call for a server name never adds, changes or reads the cache    *)
(* entry of another server name and never reads the session file of        *)
(* another name, whatever its outcome: in every step of a call the entries *)
(* of all other names stay as they are, the entry the call takes from the  *)
(* cache is the one of its own name, and the file it reads is the one of   *)
(* its own name.                                                           *)
(***************************************************************************)
\* The entry of name n is the same, or as absent, before and after the step.
EntryUnchanged(n) ==
    /\ (n \in DOMAIN server_info_cache) <=> (n \in DOMAIN server_info_cache')
    /\ n \in DOMAIN server_info_cache => server_info_cache'[n] = server_info_cache[n]

C37_OtherNamesUntouched ==
    [][\A p \in AllCallers :
          (pc[p] \notin {"idle", "done"} /\ pc'[p] # pc[p])
          => /\ \A n \in ValidNames \ {server[p]} : EntryUnchanged(n)
             /\ cached_session'[p] # cached_session[p]
                   => /\ server[p] \in DOMAIN server_info_cache
                      /\ cached_session'[p] = server_info_cache[server[p]]
             /\ reads'[p] # reads[p]
                   => reads'[p] = Append(reads[p], session_file[server[p]])]_vars

\* A call re-read the session file of its name and replaced the entry of its
\* name, while another name has another entry and another session file.
C37_Witness ==
    \E p \in AllCallers : \E n \in ValidNames \ {server[p]} :
        /\ pc[p] = "retry"
        /\ n \in DOMAIN server_info_cache
        /\ server_info_cache[n] # server_info_cache[server[p]]
        /\ session_file[n] # session_file[server[p]]
        /\ session_file[n] # NoFile
        /\ cache_before[p] # server_info_cache

====
